---- MODULE Spec2Model ----
(***************************************************************************)
(* vStock-Data: the StockVN engine of src/src/vstock_data/data_loader.py.  *)
(* Construction (StockVN.__init__), the memoised fetch_data with its three *)
(* adapters (_fetch_tcbs, _fetch_yfinance, _fetch_bigquery), the column    *)
(* normalisation and the weekly / monthly resampling.                      *)
(*                                                                         *)
(* Strings whose letter case matters are sequences of one-letter strings;  *)
(* prices are in tenths of a currency unit; a date is the day number of    *)
(* 2024 (1 = Monday 2024-01-01).                                           *)
(***************************************************************************)
EXTENDS Integers, Sequences, FiniteSets, TLC

VARIABLES
    installed,  \* the optional libraries whose import succeeded (module flags)
    engine,     \* per object slot: the outcome of StockVN(...), or NotBuilt
    cache,      \* the lru_cache of StockVN.fetch_data: entries, least recent first
    th          \* per caller thread: where it is in fetch_data and what it got

vars == <<installed, engine, cache, th>>

(***************************************************************************)
(* Bounds of the model.                                                    *)
(***************************************************************************)
NumEngines == 2
NumThreads == 2
MaxRows == 3
MaxStart == 130

Engines == 1..NumEngines
Threads == 1..NumThreads

\* Python's None where a date string, a credential or an index name is expected.
None == "None"
NoDate == [fmt |-> "None", day |-> 0]
NoCredential == [type |-> "NoneType", keys |-> {}]
Dict(keys) == [type |-> "dict", keys |-> keys]

(***************************************************************************)
(* str.lower() and str.upper().                                            *)
(***************************************************************************)
LowerCase == <<"a","b","c","d","e","f","g","h","i","j","k","l","m",
               "n","o","p","q","r","s","t","u","v","w","x","y","z">>
UpperCase == <<"A","B","C","D","E","F","G","H","I","J","K","L","M",
               "N","O","P","Q","R","S","T","U","V","W","X","Y","Z">>

LowerOf(c) ==
    IF \E i \in 1..26 : UpperCase[i] = c
    THEN LowerCase[CHOOSE i \in 1..26 : UpperCase[i] = c]
    ELSE c

UpperOf(c) ==
    IF \E i \in 1..26 : LowerCase[i] = c
    THEN UpperCase[CHOOSE i \in 1..26 : LowerCase[i] = c]
    ELSE c

lower(s) == [i \in 1..Len(s) |-> LowerOf(s[i])]
upper(s) == [i \in 1..Len(s) |-> UpperOf(s[i])]

tcbs == <<"t","c","b","s">>
yfinance == <<"y","f","i","n","a","n","c","e">>
bigquery == <<"b","i","g","q","u","e","r","y">>

(***************************************************************************)
(* Exceptions: the Python type raised and which message of the source it   *)
(* carries, with the symbol and source the message names.                  *)
(***************************************************************************)
Err(type, msg, symbol, source) ==
    [type |-> type, msg |-> msg, symbol |-> symbol, source |-> source]

Raise(e) == [ok |-> FALSE, error |-> e]
Return(v) == [ok |-> TRUE, value |-> v]

(***************************************************************************)
(* StockVN.__init__                                                        *)
(***************************************************************************)
ALLOWED_SOURCES == <<tcbs, yfinance, bigquery>>

InSeq(x, s) == \E i \in 1..Len(s) : s[i] = x

\* isinstance(credential, dict): a credential is None or a dict, modelled by
\* the keys the dict holds ("service_account" stands for the fields
\* Credentials.from_service_account_info needs).
IsDict(credential) == credential.type = "dict"

StockVN_init_CaseSensitive(symbol, source, credential, libs) ==
    IF ~InSeq(source, ALLOWED_SOURCES)
    THEN Raise(Err("ValueError", "source_not_supported", <<>>, source))
    ELSE IF source = tcbs /\ "tcbs" \notin libs
    THEN Raise(Err("ImportError", "requires_install", <<>>, source))
    ELSE IF source = yfinance /\ "yfinance" \notin libs
    THEN Raise(Err("ImportError", "requires_install", <<>>, source))
    ELSE IF source = bigquery /\ "bigquery" \notin libs
    THEN Raise(Err("ImportError", "requires_install", <<>>, source))
    ELSE IF source = bigquery /\ ~IsDict(credential)
    THEN Raise(Err("ValueError", "requires_credential", <<>>, source))
    ELSE Return([symbol |-> upper(symbol), source |-> source,
                 credential |-> credential])

StockVN_init(symbol, source, credential, libs) ==
    LET source_lower == lower(source) IN
    IF ~InSeq(source_lower, ALLOWED_SOURCES)
    THEN Raise(Err("ValueError", "source_not_supported", <<>>, source_lower))
    ELSE IF source_lower = tcbs /\ "tcbs" \notin libs
    THEN Raise(Err("ImportError", "requires_install", <<>>, source_lower))
    ELSE IF source_lower = yfinance /\ "yfinance" \notin libs
    THEN Raise(Err("ImportError", "requires_install", <<>>, source_lower))
    ELSE IF source_lower = bigquery /\ "bigquery" \notin libs
    THEN Raise(Err("ImportError", "requires_install", <<>>, source_lower))
    ELSE IF source_lower = bigquery /\ ~IsDict(credential)
    THEN Raise(Err("ValueError", "requires_credential", <<>>, source_lower))
    ELSE Return([symbol |-> upper(symbol), source |-> source_lower,
                 credential |-> credential])

(***************************************************************************)
(* Tables.  A DataFrame is its column labels, its index (one date per      *)
(* row), its rows (one value per column) and the name of its index.  A     *)
(* column label is the tuple of its level names: <<"Open">> in a flat      *)
(* header, <<"Open", "FPT.VN">> in a two-level one.                        *)
(***************************************************************************)
Labels(names) == [j \in 1..Len(names) |-> <<names[j]>>]

\* NaN, the value pandas gives a cell with no data; it is no price and no volume.
NaN == 0 - 1

Frame(columns, index, data, index_name) ==
    [columns |-> columns, index |-> index, data |-> data, index_name |-> index_name]

\* pd.DataFrame()
EmptyFrame == Frame(<<>>, <<>>, <<>>, None)

\* DataFrame.empty
empty(df) == Len(df.index) = 0 \/ Len(df.columns) = 0

ColumnAt(df, name) == CHOOSE j \in 1..Len(df.columns) : df.columns[j] = <<name>>

\* One trading day as the backend holds it.
Quote(day, o, h, l, c, v) ==
    [Date |-> day, Open |-> o, High |-> h, Low |-> l, Close |-> c, Volume |-> v]

SeqsUpTo(S, n) == UNION {[1..k -> S] : k \in 0..n}

(***************************************************************************)
(* Exceptions raised inside an adapter: the class raised and the classes   *)
(* it inherits from, which is what an except clause matches on.            *)
(***************************************************************************)
Exc(cls, bases) == [cls |-> cls, classes |-> {cls} \cup bases]

Throw(x) == [ok |-> FALSE, exc |-> x]

\* datetime.strptime(s, "%Y-%m-%d"); a date argument is None or a string,
\* modelled by its format and the day it denotes.
ISO(day) == [fmt |-> "%Y-%m-%d", day |-> day]
Malformed == [fmt |-> "%d/%m/%Y", day |-> 1]

\* "dt.strptime(s, '%Y-%m-%d') if s else ..." raises ValueError
strptime_fails(s) == s # NoDate /\ s.fmt # "%Y-%m-%d"

(***************************************************************************)
(* _fetch_tcbs.  The world's answer `resp` is the HTTP exchange: whether   *)
(* the request got through, and the body that came back.  A body is text   *)
(* that is no JSON, a JSON array, or a JSON object that may hold "data":   *)
(* a list of records.                                                      *)
(***************************************************************************)
TCBS_COLUMNS == <<"close", "high", "low", "open", "volume">>

\* "2024-01-02T00:00:00".split("T")[0], then pd.to_datetime
SplitT(s) == s[1]

tcbs_try(self, start, end, resp) ==
    IF strptime_fails(start) \/ strptime_fails(end)
    THEN Throw(Exc("ValueError", {}))
    ELSE IF resp.net # "ok"
    THEN Throw(Exc(resp.net, {"RequestException"}))
    ELSE IF resp.body.type = "text"
    THEN Throw(Exc("JSONDecodeError", resp.json_error_bases))
    ELSE IF resp.body.type = "array"
    THEN Throw(Exc("AttributeError", {}))
    ELSE IF ~resp.body.has_data \/ Len(resp.body.data) = 0
    THEN Return(EmptyFrame)
    ELSE LET data == resp.body.data
             fields == DOMAIN data[1]
         IN  IF "tradingDate" \notin fields
             THEN Throw(Exc("KeyError", {}))
             ELSE IF \E j \in 1..Len(TCBS_COLUMNS) : TCBS_COLUMNS[j] \notin fields
             THEN Throw(Exc("KeyError", {}))
             ELSE Return(Frame(Labels(TCBS_COLUMNS),
                               [i \in 1..Len(data) |-> SplitT(data[i].tradingDate)],
                               [i \in 1..Len(data) |->
                                   [j \in 1..Len(TCBS_COLUMNS) |-> data[i][TCBS_COLUMNS[j]]]],
                               "tradingDate"))

_fetch_tcbs(self, start, end, resp) ==
    LET r == tcbs_try(self, start, end, resp) IN
    IF r.ok THEN r
    ELSE IF "RequestException" \in r.exc.classes
    THEN Raise(Err("ConnectionError", "connection_error", <<>>, self.source))
    ELSE IF "JSONDecodeError" \in r.exc.classes
    THEN Raise(Err("ValueError", "json_decode_error", <<>>, self.source))
    ELSE IF "KeyError" \in r.exc.classes \/ "IndexError" \in r.exc.classes
    THEN Raise(Err("ValueError", "unexpected_structure", <<>>, self.source))
    ELSE Raise(Err(r.exc.cls, "raw", <<>>, <<>>))

(***************************************************************************)
(* _fetch_yfinance.  `resp` is what yf.download does: it raises, or it     *)
(* returns a table whose column header is flat or two-level.               *)
(***************************************************************************)
\* df.columns.droplevel(1) on a two-level header of (name, ticker) pairs
droplevel(columns) == [j \in 1..Len(columns) |-> <<columns[j][1]>>]

yfinance_try(self, start, end, resp) ==
    IF resp.raises
    THEN Throw(Exc("Exception", {}))
    ELSE IF resp.multi
    THEN Return([resp.df EXCEPT !.columns = droplevel(resp.df.columns)])
    ELSE Return(resp.df)

_fetch_yfinance(self, start, end, resp) ==
    LET r == yfinance_try(self, start, end, resp) IN
    IF r.ok THEN r
    ELSE Raise(Err("IOError", "download_error", <<>>, self.source))

(***************************************************************************)
(* _fetch_bigquery.  `resp` is what the query job does: BadRequest, any    *)
(* other failure, or the rows of the result.                               *)
(***************************************************************************)
BQ_COLUMNS == <<"Date", "Close", "High", "Low", "Open", "Volume">>

Tail1(s) == [j \in 1..(Len(s) - 1) |-> s[j + 1]]

bigquery_try(self, start, end, resp) ==
    IF "service_account" \notin self.credential.keys
    THEN Throw(Exc("ValueError", {}))
    ELSE IF "dataset_id" \notin self.credential.keys
    THEN Throw(Exc("KeyError", {}))
    ELSE IF strptime_fails(start) \/ strptime_fails(end)
    THEN Throw(Exc("ValueError", {}))
    ELSE IF resp.job = "BadRequest"
    THEN Throw(Exc("BadRequest", {"GoogleAPICallError"}))
    ELSE IF resp.job # "done"
    THEN Throw(Exc(resp.job, {}))
    ELSE IF Len(resp.rows) = 0
    THEN \* pd.DataFrame([]) has no column "Date": set_index raises
         Throw(Exc("KeyError", {}))
    ELSE Return(Frame(Labels(Tail1(BQ_COLUMNS)),
                      [i \in 1..Len(resp.rows) |-> resp.rows[i].Date],
                      [i \in 1..Len(resp.rows) |->
                          [j \in 1..(Len(BQ_COLUMNS) - 1) |-> resp.rows[i][BQ_COLUMNS[j + 1]]]],
                      "Date"))

_fetch_bigquery(self, start, end, resp) ==
    LET r == bigquery_try(self, start, end, resp) IN
    IF r.ok THEN r
    ELSE IF "BadRequest" \in r.exc.classes
    THEN Raise(Err("ValueError", "query_error", <<>>, self.source))
    ELSE Raise(Err("IOError", "download_error", <<>>, self.source))

(***************************************************************************)
(* Pandas operations fetch_data applies to the adapter's table.            *)
(***************************************************************************)
\* df.rename(columns = {"close": "Close", ...})
RenameColumn(c) ==
    CASE c = <<"close">> -> <<"Close">>
      [] c = <<"high">> -> <<"High">>
      [] c = <<"low">> -> <<"Low">>
      [] c = <<"open">> -> <<"Open">>
      [] c = <<"volume">> -> <<"Volume">>
      [] OTHER -> c

rename(df) == [df EXCEPT !.columns = [j \in 1..Len(df.columns) |-> RenameColumn(df.columns[j])]]

\* The row order of a stable sort on the index: Order(idx)[k] is the position
\* of the row that comes k-th.
Order(idx) ==
    LET before(j, i) == idx[j] < idx[i] \/ (idx[j] = idx[i] /\ j < i)
        rank(i) == Cardinality({j \in 1..Len(idx) : before(j, i)}) + 1
    IN  [k \in 1..Len(idx) |-> CHOOSE i \in 1..Len(idx) : rank(i) = k]

Reordered(df, o) ==
    [df EXCEPT !.index = [k \in 1..Len(o) |-> df.index[o[k]]],
               !.data = [k \in 1..Len(o) |-> df.data[o[k]]]]

sort_index_Unsorted(df) == df

\* df.sort_index()
sort_index(df) == Reordered(df, Order(df.index))

\* The calendar of the first quarter of 2024: weeks end on Sunday ("W" is
\* W-SUN), months on their last day ("ME"); a bucket is named by its end.
WeekEnds == [k \in 1..14 |-> 7 * k]
MonthEnds == <<31, 60, 91>>

BucketEnds(rule) == IF rule = <<"W">> THEN WeekEnds ELSE MonthEnds

BucketOf(rule, day) ==
    LET ends == BucketEnds(rule) IN
    ends[CHOOSE k \in 1..Len(ends) :
            day <= ends[k] /\ (k = 1 \/ day > ends[k - 1])]

RECURSIVE SumSeq(_)
SumSeq(s) == IF Len(s) = 0 THEN 0 ELSE s[1] + SumSeq(Tail(s))

MaxOf(S) == CHOOSE x \in S : \A y \in S : y <= x
MinOf(S) == CHOOSE x \in S : \A y \in S : x <= y

AGG_COLUMNS == <<"Open", "High", "Low", "Close", "Volume">>

Aggregate_CloseFirst(column, vals) ==
    IF column = "Volume" THEN SumSeq(vals)
    ELSE IF Len(vals) = 0 THEN NaN
    ELSE CASE column = "Open" -> vals[1]
           [] column = "High" -> MaxOf({vals[i] : i \in 1..Len(vals)})
           [] column = "Low" -> MinOf({vals[i] : i \in 1..Len(vals)})
           [] column = "Close" -> vals[1]

\* One column of one bucket: `vals` are the column's values in the bucket's
\* rows, earliest row first.
Aggregate(column, vals) ==
    IF column = "Volume" THEN SumSeq(vals)
    ELSE IF Len(vals) = 0 THEN NaN
    ELSE CASE column = "Open" -> vals[1]
           [] column = "High" -> MaxOf({vals[i] : i \in 1..Len(vals)})
           [] column = "Low" -> MinOf({vals[i] : i \in 1..Len(vals)})
           [] column = "Close" -> vals[Len(vals)]

\* df.resample(rule).agg({...}): the rows are taken in index order, every
\* bucket from the first row's to the last row's gets a row.
resample_agg(df, rule) ==
    LET s == Reordered(df, Order(df.index))
        n == Len(s.index)
        ends == BucketEnds(rule)
        lo == BucketOf(rule, s.index[1])
        hi == BucketOf(rule, s.index[n])
        IsBin(e) == lo <= e /\ e <= hi
        bins == SelectSeq(ends, IsBin)
        rowsOf(b) == LET In(i) == BucketOf(rule, s.index[i]) = b
                     IN  SelectSeq([i \in 1..n |-> i], In)
        valsOf(b, column) ==
            LET r == rowsOf(b) IN
            [k \in 1..Len(r) |-> s.data[r[k]][ColumnAt(s, column)]]
    IN  Frame(Labels(AGG_COLUMNS), bins,
              [k \in 1..Len(bins) |->
                  [j \in 1..Len(AGG_COLUMNS) |->
                      Aggregate(AGG_COLUMNS[j], valsOf(bins[k], AGG_COLUMNS[j]))]],
              s.index_name)

\* df.dropna(): the rows that hold no NaN
dropna(df) ==
    LET Full(i) == \A j \in 1..Len(df.columns) : df.data[i][j] # NaN
        keep == SelectSeq([i \in 1..Len(df.index) |-> i], Full)
    IN  [df EXCEPT !.index = [k \in 1..Len(keep) |-> df.index[keep[k]]],
                   !.data = [k \in 1..Len(keep) |-> df.data[keep[k]]]]

(***************************************************************************)
(* StockVN.fetch_data: the body the lru_cache wraps.                       *)
(***************************************************************************)
ALLOWED_INTERVALS == <<(<<"B">>), (<<"W">>), (<<"M", "E">>)>>

SupportedInterval(interval) == InSeq(upper(interval), ALLOWED_INTERVALS)

\* The adapter the source selects, run against the world's answer.
Dispatch(self, start, end, resp) ==
    IF self.source = yfinance THEN _fetch_yfinance(self, start, end, resp)
    ELSE IF self.source = bigquery THEN _fetch_bigquery(self, start, end, resp)
    ELSE IF self.source = tcbs THEN _fetch_tcbs(self, start, end, resp)
    ELSE Raise(Err("ValueError", "source_not_supported", <<>>, self.source))

fetch_data(self, start, end, interval, resp) ==
    IF ~SupportedInterval(interval)
    THEN Raise(Err("ValueError", "interval_not_supported", <<>>, <<>>))
    ELSE LET r == Dispatch(self, start, end, resp) IN
         IF ~r.ok THEN r
         ELSE IF empty(r.value)
         THEN Raise(Err("ValueError", "no_data_found", self.symbol, self.source))
         ELSE LET df == [rename(r.value) EXCEPT !.index_name = "Date"] IN
              IF upper(interval) # <<"B">>
              THEN IF \E j \in 1..Len(AGG_COLUMNS) :
                          ~InSeq(<<AGG_COLUMNS[j]>>, df.columns)
                   THEN Raise(Err("KeyError", "raw", <<>>, <<>>))
                   ELSE Return(sort_index(dropna(resample_agg(df, upper(interval)))))
              ELSE Return(sort_index(df))

(***************************************************************************)
(* functools.lru_cache(maxsize = 128) around fetch_data.  It is created    *)
(* once, in the class body, so every StockVN object shares it; the key is  *)
(* the call's arguments as passed, self included (an object hashes by      *)
(* identity).  Entries are kept least recently used first.                 *)
(***************************************************************************)
maxsize == 128

make_key(e, start, end, interval) == <<e, start, end, interval>>

Cached(c, key) == \E i \in 1..Len(c) : c[i].key = key

PositionOf(c, key) == CHOOSE i \in 1..Len(c) : c[i].key = key

Without(c, i) == [k \in 1..(Len(c) - 1) |-> IF k < i THEN c[k] ELSE c[k + 1]]

\* A hit hands out the stored result and makes the entry the most recent.
cache_touch(c, key) ==
    LET i == PositionOf(c, key) IN Append(Without(c, i), c[i])

\* After the call: a key stored meanwhile is left as it is; a full cache
\* drops its least recently used entry.
cache_store(c, key, value) ==
    IF Cached(c, key) THEN c
    ELSE IF Len(c) >= maxsize
    THEN Append(Tail(c), [key |-> key, value |-> value])
    ELSE Append(c, [key |-> key, value |-> value])

\* What the wrapper does with the outcome of the wrapped call: an exception
\* passes through it and nothing is stored.
cache_after_call_MemoizeErrors(c, key, r) ==
    cache_store(c, key, IF r.ok THEN r.value ELSE r.error)

cache_after_call(c, key, r) ==
    IF r.ok THEN cache_store(c, key, r.value) ELSE c

(***************************************************************************)
(* State of an object slot and of a caller.                                *)
(***************************************************************************)
NotBuilt == [state |-> "NotBuilt"]

Built(args, r) ==
    IF r.ok THEN [state |-> "Ready", args |-> args, self |-> r.value]
    ELSE [state |-> "Failed", args |-> args, error |-> r.error]

Idle == [pc |-> "idle"]

KeyOf(c) == make_key(c.e, c.start, c.end, c.interval)

InFlight(t) == th[t].pc = "inflight"
Done(t) == th[t].pc = "done"

(***************************************************************************)
(* Actions.                                                                *)
(***************************************************************************)
\* StockVN(symbol, source, credential) into a fresh object slot.
Construct(e, symbol, source, credential) ==
    /\ engine[e].state = "NotBuilt"
    /\ engine' = [engine EXCEPT ![e] =
            Built([symbol |-> symbol, source |-> source, credential |-> credential],
                  StockVN_init(symbol, source, credential, installed))]
    /\ UNCHANGED <<installed, cache, th>>

\* Thread t calls engine[e].fetch_data(start, end, interval): the cache
\* lookup, and on a miss the body up to the point where the adapter is
\* entered.  A hit and a rejected interval end the call at once.
Call(t, e, start, end, interval) ==
    LET key == make_key(e, start, end, interval)
        call == [e |-> e, start |-> start, end |-> end, interval |-> interval]
    IN
    /\ ~InFlight(t)
    /\ engine[e].state = "Ready"
    /\ IF Cached(cache, key)
       THEN /\ th' = [th EXCEPT ![t] = [pc |-> "done", call |-> call, hit |-> TRUE,
                         invoked |-> FALSE,
                         result |-> Return(cache[PositionOf(cache, key)].value)]]
            /\ cache' = cache_touch(cache, key)
       ELSE IF ~SupportedInterval(interval)
       THEN /\ th' = [th EXCEPT ![t] = [pc |-> "done", call |-> call, hit |-> FALSE,
                         invoked |-> FALSE,
                         result |-> fetch_data(engine[e].self, start, end, interval, None)]]
            /\ UNCHANGED cache
       ELSE /\ th' = [th EXCEPT ![t] = [pc |-> "inflight", call |-> call, hit |-> FALSE,
                         invoked |-> TRUE]]
            /\ UNCHANGED cache
    /\ UNCHANGED <<installed, engine>>

\* The adapter thread t is in comes back with the world's answer `resp`;
\* the rest of fetch_data runs and the cache stores a result that is no
\* exception.
Finish(t, resp) ==
    LET call == th[t].call
        key == KeyOf(call)
        r == fetch_data(engine[call.e].self, call.start, call.end, call.interval, resp)
    IN
    /\ InFlight(t)
    /\ th' = [th EXCEPT ![t] = [pc |-> "done", call |-> call, hit |-> FALSE,
                 invoked |-> TRUE, resp |-> resp, result |-> r]]
    /\ cache' = cache_after_call(cache, key, r)
    /\ UNCHANGED <<installed, engine>>

(***************************************************************************)
(* Inputs.                                                                 *)
(***************************************************************************)
AllLibs == {"tcbs", "yfinance", "bigquery"}

SourceArgs ==
    { <<"T","C","B","S">>, tcbs, <<"T","c","B","s">>,
      <<"Y","F","i","n","a","n","c","e">>,
      <<"B","i","g","Q","u","e","r","y">>, bigquery,
      <<"s","s","i">>, <<"S","S","I">> }

CredentialArgs ==
    { NoCredential, Dict({}), Dict({"dataset_id"}), Dict({"service_account"}),
      Dict({"dataset_id", "service_account"}) }

FPT == <<"f","p","t">>

\* The quotes a backend may hold: three days of the first week of 2024 (the
\* first two are those of tests/test_data_loader.py) and one of February.
Q1 == Quote(2, 500, 520, 495, 515, 100000)
Q2 == Quote(3, 515, 530, 510, 525, 120000)
Q3 == Quote(5, 525, 528, 490, 500, 90000)
Q4 == Quote(33, 480, 485, 470, 475, 50000)

QuotePool == {Q1, Q2, Q3, Q4}

\* The record of the REST body for a quote, with the fields of `fields`.
TcbsRecord(q, fields) ==
    LET full == [tradingDate |-> <<q.Date, "T00:00:00">>, open |-> q.Open,
                 high |-> q.High, low |-> q.Low, close |-> q.Close,
                 volume |-> q.Volume]
    IN  [f \in fields |-> full[f]]

TcbsFields == {"tradingDate", "open", "high", "low", "close", "volume"}

TcbsData(quotes, fields) == [i \in 1..Len(quotes) |-> TcbsRecord(quotes[i], fields)]

TcbsResponses(tables) ==
    { [net |-> "Timeout"] }
    \cup { [net |-> "ok", body |-> [type |-> "text"], json_error_bases |-> b] :
             b \in { {"ValueError"}, {"ValueError", "RequestException"} } }
    \cup { [net |-> "ok", body |-> [type |-> "array"]] }
    \cup { [net |-> "ok", body |-> [type |-> "object", has_data |-> TRUE,
                                    data |-> TcbsData(q, TcbsFields)]] : q \in tables }
    \cup { [net |-> "ok", body |-> [type |-> "object", has_data |-> TRUE,
                                    data |-> TcbsData(<<Q1>>, TcbsFields \ {"volume"})]] }

\* Further bodies: an object with no "data", records with no "tradingDate".
TcbsOddResponses ==
    { [net |-> "ok", body |-> [type |-> "object", has_data |-> FALSE, data |-> <<>>]],
      [net |-> "ok", body |-> [type |-> "object", has_data |-> TRUE,
                               data |-> TcbsData(<<Q1>>, TcbsFields \ {"tradingDate"})]] }

YF_COLUMN_ORDERS ==
    { <<"Close", "High", "Low", "Open", "Volume">>,
      <<"Open", "High", "Low", "Close", "Volume">> }

YfFrame(quotes, columns, multi) ==
    Frame(IF multi THEN [j \in 1..Len(columns) |-> <<columns[j], "FPT.VN">>]
                   ELSE Labels(columns),
          [i \in 1..Len(quotes) |-> quotes[i].Date],
          [i \in 1..Len(quotes) |-> [j \in 1..Len(columns) |-> quotes[i][columns[j]]]],
          "Date")

YfResponses(tables, orders) ==
    { [raises |-> TRUE] }
    \cup { [raises |-> FALSE, multi |-> m, df |-> YfFrame(q, c, m)] :
             m \in BOOLEAN, c \in orders, q \in tables }

BqResponses(tables) ==
    { [job |-> "BadRequest"], [job |-> "ServiceUnavailable"] }
    \cup { [job |-> "done", rows |-> q] : q \in tables }

\* The world's answers under Spec and SpecLRU ...
Responses(source, tables) ==
    IF source = tcbs THEN TcbsResponses(tables)
    ELSE IF source = yfinance
    THEN YfResponses(tables, {<<"Close", "High", "Low", "Open", "Volume">>})
    ELSE BqResponses(tables)

\* ... and under SpecSeries.
AllResponses(source, tables) ==
    IF source = tcbs THEN TcbsResponses(tables) \cup TcbsOddResponses
    ELSE IF source = yfinance THEN YfResponses(tables, YF_COLUMN_ORDERS)
    ELSE BqResponses(tables)

B == <<"B">>
W == <<"W">>
ME == <<"M", "E">>

(***************************************************************************)
(* SpecCtor: objects are constructed, from any spelling and credential.    *)
(***************************************************************************)
InitCtor ==
    /\ installed \in {AllLibs, {"tcbs", "yfinance"}}
    /\ engine = [e \in Engines |-> NotBuilt]
    /\ cache = <<>>
    /\ th = [t \in Threads |-> Idle]

NextCtor ==
    \E e \in Engines, source \in SourceArgs, credential \in CredentialArgs :
        Construct(e, FPT, source, credential)

SpecCtor == InitCtor /\ [][NextCtor]_vars

(***************************************************************************)
(* Spec: one engine, used by concurrent callers.  Every library is         *)
(* installed and the engine is any the constructor accepts.                *)
(***************************************************************************)
EngineArgs ==
    { [symbol |-> FPT, source |-> <<"T","C","B","S">>, credential |-> NoCredential],
      [symbol |-> FPT, source |-> <<"Y","F","i","n","a","n","c","e">>,
       credential |-> NoCredential],
      [symbol |-> FPT, source |-> <<"B","i","g","Q","u","e","r","y">>,
       credential |-> Dict({"dataset_id", "service_account"})],
      [symbol |-> FPT, source |-> <<"B","i","g","Q","u","e","r","y">>,
       credential |-> Dict({})] }

New(args) == Built(args, StockVN_init(args.symbol, args.source, args.credential, AllLibs))

StartArgs == {NoDate}
IntervalArgs == {B, W, <<"X">>}
Tables == {<<>>, <<Q1>>, <<Q2, Q1>>}

SourceOf(t) == engine[th[t].call.e].self.source

Init ==
    /\ installed = AllLibs
    /\ \E a \in EngineArgs :
          engine = [e \in Engines |-> IF e = 1 THEN New(a) ELSE NotBuilt]
    /\ cache = <<>>
    /\ th = [t \in Threads |-> Idle]

Next ==
    \/ \E t \in Threads, e \in Engines, start \in StartArgs, interval \in IntervalArgs :
          Call(t, e, start, NoDate, interval)
    \/ \E t \in Threads :
          /\ InFlight(t)
          /\ \E resp \in Responses(SourceOf(t), Tables) : Finish(t, resp)

Spec == Init /\ [][Next]_vars

(***************************************************************************)
(* SpecSeries: the first fetch of a fresh process, on any table of at most *)
(* MaxRows rows the backend may hold, in any order and with repetitions.   *)
(***************************************************************************)
SeriesIntervals == {B, W, ME, <<"w">>, <<"m", "e">>, <<"X">>}
SeriesStarts == {NoDate, ISO(1), Malformed}

NextSeries ==
    \/ /\ cache = <<>>
       /\ th[1].pc = "idle"
       /\ \E start \in SeriesStarts, interval \in SeriesIntervals :
             Call(1, 1, start, NoDate, interval)
    \/ /\ InFlight(1)
       /\ \E resp \in AllResponses(SourceOf(1), SeqsUpTo(QuotePool, MaxRows)) :
             Finish(1, resp)

SpecSeries == Init /\ [][NextSeries]_vars

(***************************************************************************)
(* SpecLRU: two engines of one process.  Engine 2 fetches, engine 1 then   *)
(* fetches one date range after another, engine 2 fetches again.           *)
(***************************************************************************)
InitLRU ==
    /\ installed = AllLibs
    /\ engine = [e \in Engines |->
                    IF e <= 2
                    THEN New([symbol |-> FPT, source |-> tcbs, credential |-> NoCredential])
                    ELSE NotBuilt]
    /\ cache = <<>>
    /\ th = [t \in Threads |-> Idle]

EntriesOf(c, e) == LET Of(x) == x.key[1] = e IN SelectSeq(c, Of)

\* The next range engine 1 asks for: the day after its latest cached one.
NextDay ==
    LET mine == EntriesOf(cache, 1)
    IN  IF Len(mine) = 0 THEN 1 ELSE mine[Len(mine)].key[2].day + 1

NextLRU ==
    \/ /\ NextDay <= MaxStart
       /\ Len(cache) > 0
       /\ Call(1, 1, ISO(NextDay), NoDate, B)
    \/ /\ Len(EntriesOf(cache, 1)) = 0 \/ Len(cache) >= maxsize
       /\ Call(1, 2, NoDate, NoDate, B)
    \/ /\ InFlight(1)
       /\ \E resp \in Responses(SourceOf(1), {<<Q1>>}) : Finish(1, resp)

SpecLRU == InitLRU /\ [][NextLRU]_vars

(***************************************************************************)
(* Properties.                                                             *)
(***************************************************************************)
Ready(e) == engine[e].state = "Ready"
Failed(e) == engine[e].state = "Failed"

\* thread t takes a step of fetch_data that ends its call
Completes(t) == th'[t] # th[t] /\ th'[t].pc = "done"

\* thread t starts a call
Starts(t) == ~InFlight(t) /\ th'[t] # th[t]

\* C1: two callers are never inside the backend adapter for the same key at
\* the same time: one computation per key, which the other callers share.
C1_OneInFlightCallPerKey ==
    \A t1, t2 \in Threads :
        (InFlight(t1) /\ InFlight(t2) /\ KeyOf(th[t1].call) = KeyOf(th[t2].call))
            => t1 = t2

\* C2: once a fetch for a key has succeeded, a fetch of the same key that
\* starts later is served from the cache, without entering an adapter, and
\* returns a Series equal to the one the earlier fetch returned.
C2_LaterFetchReturnsSameSeries ==
    [][\A t, u \in Threads :
          (/\ Done(u)
           /\ th[u].result.ok
           /\ Starts(t)
           /\ KeyOf(th'[t].call) = KeyOf(th[u].call))
          => (/\ th'[t].pc = "done"
              /\ th'[t].hit
              /\ ~th'[t].invoked
              /\ th'[t].result = th[u].result)]_vars

\* the backend was reached and answered with no row at all
ZeroRows(t) ==
    LET self == engine[th[t].call.e].self
        resp == th[t].resp
    IN  /\ ~strptime_fails(th[t].call.start)
        /\ IF self.source = tcbs
           THEN /\ resp.net = "ok"
                /\ resp.body.type = "object"
                /\ resp.body.has_data
                /\ Len(resp.body.data) = 0
           ELSE IF self.source = yfinance
           THEN ~resp.raises /\ Len(resp.df.index) = 0
           ELSE /\ {"dataset_id", "service_account"} \subseteq self.credential.keys
                /\ resp.job = "done"
                /\ Len(resp.rows) = 0

\* C3: whatever the backend, a fetch it answers with zero rows fails with the
\* not-found error that names the symbol and the backend.
C3_ZeroRowsIsNotFound ==
    \A t \in Threads :
        (Done(t) /\ th[t].invoked /\ ZeroRows(t))
            => (/\ ~th[t].result.ok
                /\ th[t].result.error =
                      Err("ValueError", "no_data_found",
                          engine[th[t].call.e].self.symbol,
                          engine[th[t].call.e].self.source))

\* a and b are the same word up to the case of their letters
SameLetter(x, y) ==
    x = y \/ \E k \in 1..26 : {x, y} = {LowerCase[k], UpperCase[k]}

CaseEq(a, b) == Len(a) = Len(b) /\ \A i \in 1..Len(a) : SameLetter(a[i], b[i])

Supported(source) == \E i \in 1..Len(ALLOWED_SOURCES) : CaseEq(source, ALLOWED_SOURCES[i])

\* C4: a backend name that is no supported name in any letter case is
\* rejected with the validation error and no engine results; two names that
\* differ in letter case only (with the same credential) are both accepted
\* or both rejected, the same way, and get the same adapter.
C4_ConstructionByCaseFoldedName ==
    /\ \A e \in Engines :
          (engine[e].state # "NotBuilt" /\ ~Supported(engine[e].args.source))
              => (/\ Failed(e)
                  /\ engine[e].error.type = "ValueError"
                  /\ engine[e].error.msg = "source_not_supported")
    /\ \A e1, e2 \in Engines :
          (/\ engine[e1].state # "NotBuilt"
           /\ engine[e2].state # "NotBuilt"
           /\ CaseEq(engine[e1].args.source, engine[e2].args.source)
           /\ engine[e1].args.credential = engine[e2].args.credential)
          => (/\ engine[e1].state = engine[e2].state
              /\ Ready(e1) => engine[e1].self.source = engine[e2].self.source
              /\ Failed(e1) => engine[e1].error = engine[e2].error)

C4_Witness ==
    \E e1, e2 \in Engines :
        /\ Failed(e1)
        /\ engine[e1].error.msg = "source_not_supported"
        /\ Ready(e2)
        /\ engine[e2].args.source # engine[e2].self.source

\* C5: with the library installed, constructing the analytical-database
\* engine with a credential that is absent or lacks the dataset identifier or
\* the service-account material fails with the validation error, so no Ready
\* engine of that backend holds such a credential.
C5_CredentialValidatedAtConstruction ==
    \A e \in Engines :
        (/\ engine[e].state # "NotBuilt"
         /\ "bigquery" \in installed
         /\ CaseEq(engine[e].args.source, bigquery)
         /\ ~(/\ engine[e].args.credential.type = "dict"
              /\ {"dataset_id", "service_account"} \subseteq engine[e].args.credential.keys))
        => (/\ Failed(e)
            /\ engine[e].error.type = "ValueError"
            /\ engine[e].error.msg = "requires_credential")

Labelled(df, names) == df.columns = Labels(names)

NonDecreasing(idx) == \A i \in 1..(Len(idx) - 1) : idx[i] <= idx[i + 1]
StrictlyIncreasing(idx) == \A i \in 1..(Len(idx) - 1) : idx[i] < idx[i + 1]

Daily(t) == th[t].call.interval \in {<<"B">>, <<"b">>}
Weekly(t) == th[t].call.interval \in {<<"W">>, <<"w">>}
Monthly(t) == th[t].call.interval \in {<<"M","E">>, <<"m","e">>, <<"M","e">>, <<"m","E">>}

Succeeded(t) == Done(t) /\ th[t].result.ok

RawQuotes(t) ==
    LET source == engine[th[t].call.e].self.source
        resp == th[t].resp
    IN  IF source = tcbs
        THEN [i \in 1..Len(resp.body.data) |->
                 LET r == resp.body.data[i] IN
                 Quote(r.tradingDate[1], r.open, r.high, r.low, r.close, r.volume)]
        ELSE IF source = yfinance
        THEN [i \in 1..Len(resp.df.index) |->
                 LET v(name) == resp.df.data[i][CHOOSE j \in 1..Len(resp.df.columns) :
                                                   resp.df.columns[j][1] = name]
                 IN  Quote(resp.df.index[i], v("Open"), v("High"), v("Low"),
                           v("Close"), v("Volume"))]
        ELSE resp.rows

\* The calendar, counted: the week (Monday to Sunday) and the month of a day.
CalendarWeek(day) == (day + 6) \div 7
CalendarMonth(day) == IF day <= 31 THEN 1 ELSE IF day <= 60 THEN 2 ELSE 3

RECURSIVE SumVolume(_, _)
SumVolume(q, R) ==
    IF R = {} THEN 0
    ELSE LET i == CHOOSE x \in R : TRUE IN q[i].Volume + SumVolume(q, R \ {i})

Cell(df, k, name) == df.data[k][ColumnAt(df, name)]

\* C7: a weekly or monthly Series has one row for each calendar bucket that
\* holds a row of the daily table, and none for any other; the row has the
\* Open of the bucket's earliest row, the highest High, the lowest Low, the
\* Close of its latest row and the sum of the Volumes.
C7_OneAggregatedRowPerBucket ==
    \A t \in Threads :
        (Succeeded(t) /\ ~th[t].hit /\ (Weekly(t) \/ Monthly(t))) =>
            LET q == RawQuotes(t)
                out == th[t].result.value
                bucket(day) == IF Weekly(t) THEN CalendarWeek(day) ELSE CalendarMonth(day)
                rowsIn(b) == {i \in 1..Len(q) : bucket(q[i].Date) = b}
            IN
            /\ Len(out.index) = Cardinality({bucket(q[i].Date) : i \in 1..Len(q)})
            /\ \A k \in 1..Len(out.index) :
                  LET R == rowsIn(bucket(out.index[k]))
                      first == CHOOSE i \in R : \A j \in R : q[i].Date <= q[j].Date
                      last == CHOOSE i \in R : \A j \in R : q[j].Date <= q[i].Date
                  IN
                  /\ R # {}
                  /\ \A k2 \in 1..Len(out.index) :
                        bucket(out.index[k2]) = bucket(out.index[k]) => k2 = k
                  /\ Cell(out, k, "Open") = q[first].Open
                  /\ Cell(out, k, "High") = MaxOf({q[i].High : i \in R})
                  /\ Cell(out, k, "Low") = MinOf({q[i].Low : i \in R})
                  /\ Cell(out, k, "Close") = q[last].Close
                  /\ Cell(out, k, "Volume") = SumVolume(q, R)

\* the two days of tests/test_data_loader.py, resampled weekly
C7_Witness ==
    \E t \in Threads :
        /\ Succeeded(t)
        /\ th[t].call.interval = W
        /\ RawQuotes(t) = <<Q1, Q2>>
        /\ th[t].result.value.index = <<7>>
        /\ th[t].result.value.data = << <<500, 530, 495, 525, 220000>> >>

\* The kind of the error taxonomy an exception of the source stands for.
Kind(err) ==
    CASE err.type = "ConnectionError" /\ err.msg = "connection_error" -> "transport"
      [] err.type = "IOError" /\ err.msg = "download_error" -> "transport"
      [] err.type = "ValueError" /\ err.msg = "json_decode_error" -> "decode"
      [] err.type = "ValueError" /\ err.msg = "unexpected_structure" -> "schema"
      [] err.type = "ValueError" /\ err.msg = "query_error" -> "query"
      [] err.type = "ValueError" /\ err.msg = "no_data_found" -> "not_found"
      [] err.type = "ValueError" /\ err.msg \in {"source_not_supported",
             "requires_credential", "interval_not_supported"} -> "validation"
      [] OTHER -> "raw"

AdapterResult(t) ==
    Dispatch(engine[th[t].call.e].self, th[t].call.start, th[t].call.end, th[t].resp)

\* C8: a failure inside an adapter leaves it as the transport, decode, schema
\* or query error its cause calls for, never as the library's own exception,
\* and fetch_data hands that error to the caller as it is.
C8_AdapterFailuresAreTranslated ==
    \A t \in Threads :
        (Done(t) /\ th[t].invoked /\ ~AdapterResult(t).ok) =>
            LET err == th[t].result.error
                source == engine[th[t].call.e].self.source
                resp == th[t].resp
            IN
            /\ ~th[t].result.ok
            /\ err = AdapterResult(t).error
            /\ Kind(err) \in {"transport", "decode", "schema", "query"}
            /\ (source = tcbs /\ resp.net # "ok") => Kind(err) = "transport"
            /\ (source = tcbs /\ resp.net = "ok" /\ resp.body.type = "text")
                  => Kind(err) = "decode"
            /\ (source = tcbs /\ resp.net = "ok" /\ resp.body.type = "object")
                  => Kind(err) = "schema"
            /\ (source = yfinance /\ resp.raises) => Kind(err) = "transport"
            /\ (source = bigquery /\ resp.job = "BadRequest"
                  /\ {"dataset_id", "service_account"} \subseteq
                        engine[th[t].call.e].self.credential.keys)
                  => Kind(err) = "query"

\* C9: a step of a fetch on one engine leaves the cached entries of every
\* other engine as they are: none added, none dropped, their order kept.
C9_FetchLeavesOtherEnginesEntries ==
    [][\A t \in Threads :
          (th'[t] # th[t] /\ th'[t].pc # "idle") =>
              \A e \in Engines \ {th'[t].call.e} :
                  EntriesOf(cache', e) = EntriesOf(cache, e)]_vars

SameCall(t) == th'[t].call = th[t].call

\* C10 as stated: a failing fetch leaves the cache as it was, and the same
\* request, made again, enters the backend adapter.
C10_FailedRequestEntersAdapterAgain ==
    \A t \in Threads :
        (Done(t) /\ ~th[t].result.ok) =>
            ENABLED (/\ Call(t, th[t].call.e, th[t].call.start, th[t].call.end,
                             th[t].call.interval)
                     /\ th'[t].invoked)

\* C10 as amended: a failing fetch stores nothing and leaves the cache as it
\* was, entries and order; so the same request, made again while no other
\* caller has stored the key, runs fetch_data again, and enters the backend
\* adapter when its interval is supported.
C10_FailureLeavesCacheUnchanged ==
    [][\A t \in Threads :
          /\ (Completes(t) /\ ~th'[t].result.ok) => cache' = cache
          /\ (/\ Done(t)
              /\ ~th[t].result.ok
              /\ Starts(t)
              /\ SameCall(t)
              /\ ~Cached(cache, KeyOf(th[t].call))
              /\ SupportedInterval(th[t].call.interval))
             => (th'[t].pc = "inflight" /\ th'[t].invoked)]_vars

\* a fetch has failed inside the adapter beside an entry cached earlier, and
\* the same request has succeeded for another caller
C10_Witness ==
    \E t, u \in Threads :
        /\ Done(t)
        /\ th[t].invoked
        /\ ~th[t].result.ok
        /\ Succeeded(u)
        /\ th[u].invoked
        /\ th[u].call = th[t].call
        /\ Len(cache) = 2

====
